---- MODULE Spec2Model ----
(***************************************************************************)
(* Model of badchart.py, a Streamlit page that is re-executed top to       *)
(* bottom on every interaction: it acquires a dataset (upload or the       *)
(* bundled sample_data.csv), lets the user pick one of five chart types    *)
(* and renders a "bad" and a "good" panel for it.                          *)
(*                                                                         *)
(* One render pass is a small sequential program; pc is its position.      *)
(* An exception no try block catches ends the pass (pc = "crashed").       *)
(*                                                                         *)
(* NOTE on the source: in src/badchart.py the statement `with col2:` at    *)
(* line 147 is followed by a body that is not indented (lines 148-199), so *)
(* the file as it stands is rejected by the Python compiler.  The model    *)
(* reads lines 148-199 as the body of that `with`, as the layout of the    *)
(* four other branches does.                                               *)
(***************************************************************************)
EXTENDS Integers, Sequences, FiniteSets, TLC

VARIABLES
    uploaded_file,  \* the upload widget's file (NoFile: nothing uploaded)
    sample_file,    \* sample_data.csv in the app directory (NoFile: it does not exist)
    chart_type,     \* the selectbox's value
    pc,             \* position of the render pass
    df,             \* the DataFrame
    out,            \* the elements rendered in this pass, in order
    badData,        \* what the bad panel's chart call was given
    goodData,       \* what the good panel's chart call was given
    reads,          \* the pd.read_csv calls of this pass
    shown           \* history: the marker color shown for each category so far

vars == <<uploaded_file, sample_file, chart_type, pc, df, out,
          badData, goodData, reads, shown>>

(***************************************************************************)
(* Bounds of the model.                                                    *)
(***************************************************************************)
MaxRows == 2

(***************************************************************************)
(* CSV files.  A file has a header (cols, in the fixed order ColOrder) and *)
(* rows of text cells.  The cells of Latitude/Longitude are not kept one   *)
(* by one: coordsNumeric says whether all of them are numbers.             *)
(***************************************************************************)
ColOrder == <<"Category", "Value", "Year", "Latitude", "Longitude">>
ColNames == {ColOrder[i] : i \in 1..Len(ColOrder)}

\* The texts a cell of each column is drawn from.
YearTexts == {"2", "1.5", "x", "inf"}
ValueTexts == {"5", ""}
CategoryTexts == {"A", "1"}
AllTexts == [Year |-> YearTexts, Value |-> ValueTexts, Category |-> CategoryTexts]

TextsOf(cols, c, texts) == IF c \in cols THEN texts[c] ELSE {""}

FileRows(cols, texts) ==
    [Year : TextsOf(cols, "Year", texts),
     Value : TextsOf(cols, "Value", texts),
     Category : TextsOf(cols, "Category", texts)]

HasCoords(cols) == {"Latitude", "Longitude"} \subseteq cols

CoordChoices(cols, rows) ==
    IF HasCoords(cols) /\ rows # <<>> THEN BOOLEAN ELSE {rows # <<>>}

\* A file without a header is the empty file.
RowCounts(cols, n) == IF cols = {} THEN 0 ELSE n

\* The files with a header among colsets and at most n rows.
IsFileOver(f, colsets, texts, n) ==
    \E cols \in colsets : \E k \in 0..RowCounts(cols, n) :
        \E rows \in [1..k -> FileRows(cols, texts)] :
            \E cn \in CoordChoices(cols, rows) :
                f = [present |-> TRUE, cols |-> cols, rows |-> rows,
                     coordsNumeric |-> cn]

NoFile == [present |-> FALSE, cols |-> {}, rows |-> <<>>, coordsNumeric |-> FALSE]

\* The bundled sample_data.csv, when the app directory has one.
SampleFiles ==
    {[present |-> TRUE, cols |-> ColNames,
      rows |-> <<[Year |-> "2", Value |-> "5", Category |-> "A"]>>,
      coordsNumeric |-> TRUE]}

ChartTypes == {"Bar Chart", "Pie Chart", "Line Chart", "Map Chart", "Donut Chart"}

(***************************************************************************)
(* pd.read_csv: type inference per column.                                 *)
(***************************************************************************)
IsIntText(t) == t \in {"1", "2", "5"}
IsNumText(t) == IsIntText(t) \/ t \in {"1.5", "inf"}
IsNaText(t) == t = ""

ColTexts(rows, c) == {rows[i][c] : i \in 1..Len(rows)}

\* dtype of a column of text cells: int64, float64 or object.
InferDtype(rows, c) ==
    IF rows = <<>> THEN "object"
    ELSE IF \A t \in ColTexts(rows, c) : IsIntText(t) THEN "int"
    ELSE IF \A t \in ColTexts(rows, c) : IsNumText(t) \/ IsNaText(t) THEN "float"
    ELSE "object"

AbsentCell == [k |-> "absent", s |-> ""]
NaN == [k |-> "nan", s |-> ""]

ParseCell(dtype, t) ==
    IF IsNaText(t) THEN NaN
    ELSE IF dtype = "int" THEN [k |-> "int", s |-> t]
    ELSE IF dtype = "float" THEN [k |-> "float", s |-> t]
    ELSE [k |-> "str", s |-> t]

ParseCol(file, c, i) ==
    IF c \in file.cols THEN ParseCell(InferDtype(file.rows, c), file.rows[i][c])
    ELSE AbsentCell

NoDf == [cols |-> {}, rows |-> <<>>, coordsNumeric |-> FALSE]

\* read_csv raises EmptyDataError on a file without any column.
ReadFails(file) == file.cols = {}

\* The DataFrame of a file; idx is the row label pandas gives (0, 1, ...).
read_csv(file) ==
    [cols |-> file.cols,
     rows |-> [i \in 1..Len(file.rows) |->
                 [idx |-> i - 1,
                  Color |-> <<>>,
                  Year |-> ParseCol(file, "Year", i),
                  Value |-> ParseCol(file, "Value", i),
                  Category |-> ParseCol(file, "Category", i)]],
     coordsNumeric |-> file.coordsNumeric]

(***************************************************************************)
(* Column dtypes of the DataFrame, and select_dtypes(include='number').    *)
(***************************************************************************)
CellsOf(d, c) == {d.rows[i][c] : i \in 1..Len(d.rows)}

DtypeOf(d, c) ==
    IF c \in {"Latitude", "Longitude"}
    THEN IF d.coordsNumeric THEN "float" ELSE "object"
    ELSE IF d.rows = <<>> THEN "object"
    ELSE IF \E x \in CellsOf(d, c) : x.k = "str" THEN "object"
    ELSE IF \A x \in CellsOf(d, c) : x.k = "int" THEN "int"
    ELSE "float"

IsNumericCol(d, c) == c \in d.cols /\ DtypeOf(d, c) \in {"int", "float"}

NumericPositions(d) == {i \in 1..Len(ColOrder) : IsNumericCol(d, ColOrder[i])}

Min(S) == CHOOSE x \in S : \A y \in S : x <= y

\* df.select_dtypes(include='number').iloc[:, 0]: IndexError when no column is numeric.
HasNumeric(d) == NumericPositions(d) # {}
FirstNumeric(d) == ColOrder[Min(NumericPositions(d))]

Labels(d) == [i \in 1..Len(d.rows) |-> d.rows[i].idx]

\* What a bad panel draws: one column of the DataFrame, all of its rows.
Series(d, c) == <<[col |-> c, idx |-> Labels(d)]>>

(***************************************************************************)
(* Elements the page renders, in order.                                    *)
(***************************************************************************)
El(kind, text) == [kind |-> kind, num |-> 0, text |-> text]

\* Lines 42-47, 72-77, 94-99, 139-144, 209-214: the titles of the mistakes.
Mistakes(mode) ==
    CASE mode = "Bar Chart" ->
           <<"No x-axis labels", "Missing title", "No color distinction",
             "Only numeric data shown", "Overly simplistic">>
      [] mode = "Pie Chart" ->
           <<"No category labels", "No values shown", "Colors too similar",
             "No title", "Only values shown">>
      [] mode = "Line Chart" ->
           <<"Missing x-axis (e.g. time)", "No category separation",
             "No markers or line styles", "No axis labels", "No title">>
      [] mode = "Map Chart" ->
           <<"No data labels", "No tooltip/info", "Overlapping points",
             "No zoom/pan control", "No color coding">>
      [] mode = "Donut Chart" ->
           <<"Not a real donut", "No labels", "No values or percentages",
             "No title", "Too many segments">>

\* Lines 31-34: an expander, then one numbered markdown line per mistake.
show_explanations(mistakes) ==
    <<El("expander", "5 Common Mistakes in Bad Chart")>> \o
    [i \in 1..Len(mistakes) |-> [kind |-> "markdown", num |-> i, text |-> mistakes[i]]]

Exception(name) == <<El("exception", name)>>

(***************************************************************************)
(* Dataset acquisition, lines 14-25.                                       *)
(***************************************************************************)
\* The bundled file tried before the upload.
SourceSampleFirst(u, s) ==
    IF s.present THEN "sample_data.csv"
    ELSE IF u.present THEN "upload"
    ELSE "none"

Source(u, s) ==
    IF u.present THEN "upload"
    ELSE IF s.present THEN "sample_data.csv"
    ELSE "none"

\* The warning without the st.stop() after it.
AfterNoDataWithoutStop == "select"

\* st.stop() at line 25.
AfterNoData == "stopped"

FileOf(src) == IF src = "upload" THEN uploaded_file ELSE sample_file

Acquire ==
    /\ pc = "acquire"
    /\ UNCHANGED <<uploaded_file, sample_file, chart_type, badData, goodData, shown>>
    /\ LET src == Source(uploaded_file, sample_file) IN
       IF src = "none"
       THEN /\ out' = Append(out, El("warning",
                  "Please upload a CSV file or provide a 'sample_data.csv' in the app directory."))
            /\ pc' = AfterNoData
            /\ UNCHANGED <<df, reads>>
       ELSE /\ reads' = Append(reads, src)
            /\ IF ReadFails(FileOf(src))
               THEN /\ pc' = "crashed"
                    /\ out' = out \o Exception("EmptyDataError")
                    /\ df' = df
               ELSE /\ df' = read_csv(FileOf(src))
                    /\ out' = Append(out,
                          IF src = "upload" THEN El("success", "CSV loaded successfully!")
                          ELSE El("info", "Using default sample CSV file."))
                    /\ pc' = "select"

\* Lines 27-29.
SelectChart ==
    /\ pc = "select"
    /\ out' = Append(out, El("selectbox", "Choose chart type"))
    /\ pc' = "bad"
    /\ UNCHANGED <<uploaded_file, sample_file, chart_type, df, badData, goodData,
                   reads, shown>>

Frame == UNCHANGED <<uploaded_file, sample_file, chart_type, reads>>

HasCategoryValue(d) == "Category" \in d.cols /\ "Value" \in d.cols

(***************************************************************************)
(* Bar Chart, lines 36-62.                                                 *)
(***************************************************************************)
BarBad ==
    /\ pc = "bad" /\ chart_type = "Bar Chart"
    /\ Frame /\ UNCHANGED <<df, goodData, shown>>
    /\ LET top == <<El("header", "1. Bar Chart"), El("subheader", "Bad Bar Chart")>> IN
       IF HasNumeric(df)
       THEN /\ badData' = Series(df, FirstNumeric(df))
            /\ out' = out \o top \o <<El("bar_chart", "")>>
                          \o show_explanations(Mistakes("Bar Chart"))
            /\ pc' = "good"
       ELSE /\ out' = out \o top \o Exception("IndexError")
            /\ pc' = "crashed"
            /\ badData' = badData

BarGood ==
    /\ pc = "good" /\ chart_type = "Bar Chart"
    /\ Frame /\ UNCHANGED <<df, badData, shown>>
    /\ pc' = "done"
    /\ IF HasCategoryValue(df)
       THEN /\ goodData' = <<df.rows>>
            /\ out' = out \o <<El("subheader", "Fixed Bar Chart"),
                               El("altair_chart", "Bar Chart of Values by Category")>>
       ELSE /\ goodData' = goodData
            /\ out' = out \o <<El("subheader", "Fixed Bar Chart"),
                               El("warning", "Columns 'Category' and 'Value' required.")>>

(***************************************************************************)
(* Pie Chart, lines 64-86.                                                 *)
(***************************************************************************)
PieBad ==
    /\ pc = "bad" /\ chart_type = "Pie Chart"
    /\ Frame /\ UNCHANGED <<df, goodData, shown>>
    /\ LET top == <<El("header", "2. Pie Chart"), El("subheader", "Bad Pie Chart")>> IN
       IF HasNumeric(df)
       THEN /\ badData' = Series(df, FirstNumeric(df))
            /\ out' = out \o top \o <<El("pyplot", "")>>
                          \o show_explanations(Mistakes("Pie Chart"))
            /\ pc' = "good"
       ELSE /\ out' = out \o top \o Exception("IndexError")
            /\ pc' = "crashed"
            /\ badData' = badData

PieGood ==
    /\ pc = "good" /\ chart_type = "Pie Chart"
    /\ Frame /\ UNCHANGED <<df, badData, shown>>
    /\ pc' = "done"
    /\ IF HasCategoryValue(df)
       THEN /\ goodData' = <<df.rows>>
            /\ out' = out \o <<El("subheader", "Fixed Pie Chart"),
                               El("plotly_chart", "Pie Chart of Values")>>
       ELSE /\ goodData' = goodData
            /\ out' = out \o <<El("subheader", "Fixed Pie Chart"),
                               El("warning", "Columns 'Category' and 'Value' required.")>>

(***************************************************************************)
(* Donut Chart, lines 202-224.                                             *)
(***************************************************************************)
\* px.pie(df, names='Category', values='Value') raises ValueError on a missing column.
DonutBad ==
    /\ pc = "bad" /\ chart_type = "Donut Chart"
    /\ Frame /\ UNCHANGED <<df, goodData, shown>>
    /\ LET top == <<El("header", "5. Donut Chart"),
                    El("subheader", "Bad Donut Chart (Actually Pie)")>> IN
       IF HasCategoryValue(df)
       THEN /\ badData' = <<df.rows>>
            /\ out' = out \o top \o <<El("plotly_chart", "")>>
                          \o show_explanations(Mistakes("Donut Chart"))
            /\ pc' = "good"
       ELSE /\ out' = out \o top \o Exception("ValueError")
            /\ pc' = "crashed"
            /\ badData' = badData

DonutGood ==
    /\ pc = "good" /\ chart_type = "Donut Chart"
    /\ Frame /\ UNCHANGED <<df, badData, shown>>
    /\ pc' = "done"
    /\ IF HasCategoryValue(df)
       THEN /\ goodData' = <<df.rows>>
            /\ out' = out \o <<El("subheader", "Fixed Donut Chart"),
                               El("plotly_chart", "Donut Chart of Values by Category")>>
       ELSE /\ goodData' = goodData
            /\ out' = out \o <<El("subheader", "Fixed Donut Chart"),
                               El("warning", "Columns 'Category' and 'Value' required.")>>

(***************************************************************************)
(* Line Chart, lines 88-123.                                               *)
(***************************************************************************)
LineBad ==
    /\ pc = "bad" /\ chart_type = "Line Chart"
    /\ Frame /\ UNCHANGED <<df, goodData, shown>>
    /\ LET top == <<El("header", "3. Line Chart"), El("subheader", "Bad Line Chart")>> IN
       IF HasNumeric(df)
       THEN /\ badData' = Series(df, FirstNumeric(df))
            /\ out' = out \o top \o <<El("line_chart", "")>>
                          \o show_explanations(Mistakes("Line Chart"))
            /\ pc' = "good"
       ELSE /\ out' = out \o top \o Exception("IndexError")
            /\ pc' = "crashed"
            /\ badData' = badData

\* pd.to_numeric(..., errors='coerce') on one cell: what does not parse becomes NaN.
to_numeric(x) ==
    IF x.k \in {"int", "float"} THEN x
    ELSE IF x.k = "str" /\ IsNumText(x.s) THEN [k |-> "float", s |-> x.s]
    ELSE NaN

\* Line 106.
CoerceYear(rows) == [i \in 1..Len(rows) |-> [rows[i] EXCEPT !.Year = to_numeric(@)]]

\* dropna(subset=['Year']).
DropSubsetYearOnly == {"Year"}

\* Line 107: df.dropna(subset=['Year', 'Value']).
DropSubset == {"Year", "Value"}
dropna(rows) == SelectSeq(rows, LAMBDA r : \A c \in DropSubset : r[c].k # "nan")

\* Line 108: astype(int) truncates, and raises on a non-finite value.
IntText(t) == IF t = "1.5" THEN "1" ELSE t
AstypeIntFails(rows) == \E i \in 1..Len(rows) : rows[i].Year.s = "inf"
astype_int(rows) ==
    [i \in 1..Len(rows) |->
        [rows[i] EXCEPT !.Year = [k |-> "int", s |-> IntText(@.s)]]]

\* Numbers are compared by their value in tenths, strings as Python compares them.
Tenths(t) ==
    CASE t = "1" -> 10 [] t = "1.5" -> 15 [] t = "2" -> 20 [] t = "5" -> 50
      [] OTHER -> 0
TextRank(t) ==
    CASE t = "1" -> 1 [] t = "A" -> 2 [] OTHER -> 0

\* Order of two cells of one column; NaN sorts last (na_position='last').
CellLess(a, b) ==
    IF a.k = "nan" THEN FALSE
    ELSE IF b.k = "nan" THEN TRUE
    ELSE IF a.k = "str" THEN TextRank(a.s) < TextRank(b.s)
    ELSE Tenths(a.s) < Tenths(b.s)

\* by=['Year', 'Category'].
RowLessYearFirst(r1, r2) ==
    \/ CellLess(r1.Year, r2.Year)
    \/ /\ ~CellLess(r2.Year, r1.Year)
       /\ CellLess(r1.Category, r2.Category)

\* Line 109: by=['Category', 'Year'].
RowLess(r1, r2) ==
    \/ CellLess(r1.Category, r2.Category)
    \/ /\ ~CellLess(r2.Category, r1.Category)
       /\ CellLess(r1.Year, r2.Year)

RECURSIVE Insert(_, _)
Insert(s, r) ==
    IF s = <<>> THEN <<r>>
    ELSE IF RowLess(r, Head(s)) THEN <<r>> \o s
    ELSE <<Head(s)>> \o Insert(Tail(s), r)

\* A stable sort, as the lexsort of sort_values on several keys is.
RECURSIVE sort_values(_)
sort_values(rows) ==
    IF rows = <<>> THEN <<>>
    ELSE Insert(sort_values(SubSeq(rows, 1, Len(rows) - 1)), rows[Len(rows)])

LineColumns == {"Year", "Value", "Category"}

LineGood ==
    /\ pc = "good" /\ chart_type = "Line Chart"
    /\ Frame /\ UNCHANGED <<badData, shown>>
    /\ pc' = "done"
    /\ IF LineColumns \subseteq df.cols
       THEN LET dropped == dropna(CoerceYear(df.rows)) IN
            IF AstypeIntFails(dropped)
            THEN /\ df' = [df EXCEPT !.rows = dropped]
                 /\ goodData' = goodData
                 /\ out' = out \o <<El("subheader", "Fixed Line Chart"),
                                    El("error", "Error rendering line chart")>>
            ELSE /\ df' = [df EXCEPT !.rows = sort_values(astype_int(dropped))]
                 /\ goodData' = <<df'.rows>>
                 /\ out' = out \o <<El("subheader", "Fixed Line Chart"),
                                    El("plotly_chart",
                                       "Line Chart: Values by Year and Category")>>
       ELSE /\ UNCHANGED <<df, goodData>>
            /\ out' = out \o <<El("subheader", "Fixed Line Chart"),
                               El("warning",
                                  "Columns 'Year', 'Category', and 'Value' required.")>>

(***************************************************************************)
(* Map Chart, lines 125-199.                                               *)
(***************************************************************************)
MapBad ==
    /\ pc = "bad" /\ chart_type = "Map Chart"
    /\ Frame /\ UNCHANGED <<df, goodData, shown>>
    /\ pc' = "good"
    /\ LET top == <<El("header", "4. Map Chart"), El("subheader", "Bad Map Chart")>>
           tail == show_explanations(Mistakes("Map Chart")) IN
       IF HasCoords(df.cols)
       THEN IF df.coordsNumeric
            THEN /\ badData' = <<[col |-> "latitude,longitude", idx |-> Labels(df)]>>
                 /\ out' = out \o top \o <<El("map", "")>> \o tail
            ELSE /\ badData' = badData
                 /\ out' = out \o top \o
                      <<El("error",
                           "Map could not be rendered. Check Latitude and Longitude values.")>>
                      \o tail
       ELSE /\ badData' = badData
            /\ out' = out \o top \o
                 <<El("warning", "Missing 'Latitude' and 'Longitude' columns for map.")>>
                 \o tail

\* str(cat) of a cell's Python value.
FloatText(t) == IF t = "1" THEN "1.0" ELSE t
Str(x) ==
    IF x.k = "nan" THEN "nan"
    ELSE IF x.k = "float" THEN FloatText(x.s)
    ELSE x.s

\* hashlib.md5(s.encode()).hexdigest()[:6], digit by digit.
Md5Hex6(s) ==
    CASE s = "A" -> <<7, 15, 12, 5, 6, 2>>
      [] s = "1" -> <<12, 4, 12, 10, 4, 2>>
      [] s = "1.0" -> <<14, 4, 12, 2, 14, 8>>
      [] s = "nan" -> <<10, 3, 13, 2, 13, 14>>

\* int(hex_color[i:i+2], 16), i counted from 0.
HexByte(h, i) == 16 * h[i + 1] + h[i + 2]

\* hashlib.md5(repr(cat).encode()).hexdigest()[:6]: a string is hashed with its quotes.
Md5Hex6Repr(x) ==
    IF x.k # "str" THEN Md5Hex6(Str(x))
    ELSE CASE x.s = "A" -> <<12, 8, 11, 12, 12, 12>>
           [] x.s = "1" -> <<7, 2, 13, 5, 11, 8>>

category_to_color_repr(cat) ==
    LET hex_color == Md5Hex6Repr(cat) IN
    <<HexByte(hex_color, 0), HexByte(hex_color, 2), HexByte(hex_color, 4)>> \o <<160>>

\* The alpha of the fallback color, 140, used for the hashed colors too.
category_to_color_alpha140(cat) ==
    LET hex_color == Md5Hex6(Str(cat)) IN
    <<HexByte(hex_color, 0), HexByte(hex_color, 2), HexByte(hex_color, 4)>> \o <<140>>

\* Lines 157-160.
category_to_color(cat) ==
    LET hex_color == Md5Hex6(Str(cat)) IN
    <<HexByte(hex_color, 0), HexByte(hex_color, 2), HexByte(hex_color, 4)>> \o <<160>>

\* Line 165.
DefaultColor == <<180, 0, 200, 140>>

\* Lines 162-165: the Color column.
WithColor(d) ==
    [d EXCEPT !.rows = [i \in 1..Len(d.rows) |->
        [d.rows[i] EXCEPT !.Color = IF "Category" \in d.cols
                                   THEN <<category_to_color(d.rows[i].Category)>>
                                   ELSE <<DefaultColor>>]]]

\* The categories on the map: string form, kind of value, marker color.
Pairs(d) ==
    IF "Category" \in d.cols
    THEN {[str |-> Str(d.rows[i].Category), kind |-> d.rows[i].Category.k,
           color |-> d.rows[i].Color[1]] : i \in 1..Len(d.rows)}
    ELSE {}

MapGood ==
    /\ pc = "good" /\ chart_type = "Map Chart"
    /\ Frame /\ UNCHANGED <<badData>>
    /\ pc' = "done"
    /\ IF HasCoords(df.cols)
       THEN /\ df' = WithColor(df)
            /\ IF df.coordsNumeric
               THEN /\ goodData' = <<df'.rows>>
                    /\ shown' = shown \cup Pairs(df')
                    /\ out' = out \o <<El("subheader", "Fixed Map Chart"),
                                       El("pydeck_chart", "")>>
               ELSE /\ UNCHANGED <<goodData, shown>>
                    /\ out' = out \o <<El("subheader", "Fixed Map Chart"),
                                       El("error", "Error rendering map")>>
       ELSE /\ UNCHANGED <<df, goodData, shown>>
            /\ out' = out \o <<El("subheader", "Fixed Map Chart"),
                  El("warning",
                     "Missing 'Latitude' and 'Longitude' columns for the improved map.")>>

(***************************************************************************)
(* One render pass.                                                        *)
(***************************************************************************)
StartOfPass ==
    /\ pc = "acquire"
    /\ df = NoDf
    /\ out = <<>>
    /\ badData = <<>>
    /\ goodData = <<>>
    /\ reads = <<>>

Init ==
    /\ \/ uploaded_file = NoFile
       \/ IsFileOver(uploaded_file, SUBSET ColNames, AllTexts, MaxRows)
    /\ sample_file \in SampleFiles \cup {NoFile}
    /\ chart_type \in ChartTypes
    /\ shown = {}
    /\ StartOfPass

Next ==
    \/ Acquire
    \/ SelectChart
    \/ BarBad \/ BarGood
    \/ PieBad \/ PieGood
    \/ LineBad \/ LineGood
    \/ MapBad \/ MapGood
    \/ DonutBad \/ DonutGood

Spec == Init /\ [][Next]_vars

(***************************************************************************)
(* Line Chart passes over larger datasets that have the three columns.     *)
(***************************************************************************)
MaxLineRows == 3

LineInit ==
    /\ IsFileOver(uploaded_file, {LineColumns}, AllTexts, MaxLineRows)
    /\ sample_file \in SampleFiles \cup {NoFile}
    /\ chart_type = "Line Chart"
    /\ shown = {}
    /\ StartOfPass

LineNext == Acquire \/ SelectChart \/ LineBad \/ LineGood

SpecLine == LineInit /\ [][LineNext]_vars

(***************************************************************************)
(* A session: the script runs again whenever the user uploads another      *)
(* file or picks another chart type.  The first run has no upload and the  *)
(* selectbox at its first option; a selectbox that was not rendered in a   *)
(* run loses its value.                                                    *)
(***************************************************************************)
SessionTexts == [Year |-> {"2"}, Value |-> {"5"}, Category |-> {"A", "1", ""}]

SessionColumns ==
    {{"Latitude", "Longitude"},
     {"Latitude", "Longitude", "Category"},
     {"Latitude", "Longitude", "Category", "Value"}}

SessionInit ==
    /\ uploaded_file = NoFile
    /\ sample_file \in SampleFiles \cup {NoFile}
    /\ chart_type = "Bar Chart"
    /\ shown = {}
    /\ StartOfPass

Rendered(kind) == \E i \in 1..Len(out) : out[i].kind = kind

Terminal == {"done", "stopped", "crashed"}

RerunUpload ==
    /\ pc \in Terminal
    /\ \/ uploaded_file' = NoFile
       \/ IsFileOver(uploaded_file', SessionColumns, SessionTexts, MaxRows)
    /\ uploaded_file' # uploaded_file
    /\ chart_type' = IF Rendered("selectbox") THEN chart_type ELSE "Bar Chart"
    /\ pc' = "acquire" /\ df' = NoDf /\ out' = <<>>
    /\ badData' = <<>> /\ goodData' = <<>> /\ reads' = <<>>
    /\ UNCHANGED <<sample_file, shown>>

RerunSelect ==
    /\ pc \in Terminal
    /\ Rendered("selectbox")
    /\ \E m \in ChartTypes \ {chart_type} : chart_type' = m
    /\ pc' = "acquire" /\ df' = NoDf /\ out' = <<>>
    /\ badData' = <<>> /\ goodData' = <<>> /\ reads' = <<>>
    /\ UNCHANGED <<uploaded_file, sample_file, shown>>

SessionNext == Next \/ RerunUpload \/ RerunSelect

SpecSession == SessionInit /\ [][SessionNext]_vars

(***************************************************************************)
(* Properties.                                                             *)
(***************************************************************************)
\* The dataset as pd.read_csv returned it in this pass.
Acquired == read_csv(FileOf(Source(uploaded_file, sample_file)))

\* The pass has a DataFrame: a source exists and reading it did not raise.
Loaded == df.cols # {}

ChartKinds ==
    {"bar_chart", "pyplot", "line_chart", "map", "altair_chart", "plotly_chart",
     "pydeck_chart"}

ChartUiKinds == ChartKinds \cup {"selectbox", "header", "subheader", "expander", "markdown"}

NoDataWarning ==
    El("warning",
       "Please upload a CSV file or provide a 'sample_data.csv' in the app directory.")

ColumnsWarning == El("warning", "Columns 'Category' and 'Value' required.")

Position(kind, text) ==
    {i \in 1..Len(out) : out[i].kind = kind /\ out[i].text = text}

\* C1: in a pass with no upload and no sample_data.csv the page shows the
\* warning and halts; the selectbox, the headers and every panel element
\* are never rendered in that pass.
C1_NoDataHalts ==
    (~uploaded_file.present /\ ~sample_file.present) =>
        /\ pc \in {"acquire", "stopped"}
        /\ pc = "stopped" => out = <<NoDataWarning>>
        /\ \A i \in 1..Len(out) : out[i].kind \notin ChartUiKinds

C1_Witness ==
    /\ pc = "stopped"
    /\ ~uploaded_file.present /\ ~sample_file.present
    /\ out = <<NoDataWarning>>

\* C2: for every acquired dataset that lacks Category or Value, in Bar, Pie
\* and Donut mode, the pass reaches the good panel, which shows the warning
\* "Columns 'Category' and 'Value' required." and renders no chart.
C2_GoodPanelWarns ==
    (/\ pc \in {"done", "crashed"}
     /\ Loaded
     /\ chart_type \in {"Bar Chart", "Pie Chart", "Donut Chart"}
     /\ ~HasCategoryValue(df)) =>
        /\ pc = "done"
        /\ out[Len(out)] = ColumnsWarning
        /\ goodData = <<>>

\* C3: in Line Chart mode with Year, Value and Category present, every row
\* whose Year does not parse as a number is absent from the rows given to the
\* good line chart, and those rows are non-decreasing in (Category, Year).
YearParses(x) == x.k \in {"int", "float"} \/ (x.k = "str" /\ IsNumText(x.s))

CatYearLeq(r1, r2) ==
    \/ CellLess(r1.Category, r2.Category)
    \/ /\ r1.Category = r2.Category
       /\ ~CellLess(r2.Year, r1.Year)

LineChartBuilt == chart_type = "Line Chart" /\ pc = "done" /\ goodData # <<>>

C3_LineRowsFilteredSorted ==
    LineChartBuilt =>
        LET rows == goodData[1] IN
        /\ \A i \in 1..Len(Acquired.rows) :
              ~YearParses(Acquired.rows[i].Year) =>
                  \A j \in 1..Len(rows) : rows[j].idx # Acquired.rows[i].idx
        /\ \A i, j \in 1..Len(rows) : i < j => CatYearLeq(rows[i], rows[j])
        /\ \A j \in 1..Len(rows) : rows[j].Year.k = "int"

C3_Witness ==
    /\ LineChartBuilt
    /\ \E i \in 1..Len(Acquired.rows) : ~YearParses(Acquired.rows[i].Year)
    /\ Len(goodData[1]) >= 2
    /\ goodData[1][1].idx > goodData[1][2].idx

\* C4: the marker color depends only on the category's string form: two rows
\* of one pass or of two passes with the same category string have the same
\* color, whatever the dataset and the row order.
ColorsNow ==
    IF chart_type = "Map Chart" /\ pc = "done" /\ HasCoords(df.cols)
    THEN Pairs(df) ELSE {}

C5_NoFatalFailure ==
    (uploaded_file.present \/ sample_file.present) => pc # "crashed"

\* C6: acquisition has exactly one of three outcomes, in strict priority:
\* the upload when there is one, else sample_data.csv when it exists, else the
\* pass halts; the dataset is read at most once per pass.
C6_AcquisitionPriority ==
    /\ Len(reads) <= 1
    /\ pc # "acquire" =>
        /\ uploaded_file.present =>
              /\ reads = <<"upload">>
              /\ pc = "select" =>
                    df = read_csv(uploaded_file) /\ out[1].kind = "success"
        /\ (~uploaded_file.present /\ sample_file.present) =>
              /\ reads = <<"sample_data.csv">>
              /\ pc = "select" =>
                    df = read_csv(sample_file) /\ out[1].kind = "info"
        /\ (~uploaded_file.present /\ ~sample_file.present) <=> pc = "stopped"
        /\ pc = "stopped" => reads = <<>> /\ df = NoDf

C6_Witness ==
    /\ pc = "select"
    /\ uploaded_file.present /\ sample_file.present
    /\ df = read_csv(uploaded_file)
    /\ df # read_csv(sample_file)

\* C7: missing columns give a warning and no chart: the good line panel
\* renders a chart only with Year, Value and Category and otherwise shows a
\* warning; each map panel renders a map only with Latitude and Longitude and
\* otherwise shows a warning, never an error.
C7_MissingColumnsWarn ==
    (pc \in {"done", "crashed"} /\ Loaded) =>
        /\ (chart_type = "Line Chart" /\ ~(LineColumns \subseteq df.cols)) =>
              /\ Position("warning",
                          "Columns 'Year', 'Category', and 'Value' required.") # {}
              /\ ~Rendered("plotly_chart")
        /\ (chart_type = "Line Chart" /\ Rendered("plotly_chart")) =>
              LineColumns \subseteq df.cols
        /\ (chart_type = "Map Chart" /\ ~HasCoords(df.cols)) =>
              /\ Position("warning",
                          "Missing 'Latitude' and 'Longitude' columns for map.") # {}
              /\ Position("warning",
                    "Missing 'Latitude' and 'Longitude' columns for the improved map.") # {}
              /\ ~Rendered("map") /\ ~Rendered("pydeck_chart") /\ ~Rendered("error")
        /\ (chart_type = "Map Chart" /\ (Rendered("map") \/ Rendered("pydeck_chart"))) =>
              HasCoords(df.cols)

\* C8: for every mode and every acquired dataset the pass shows, after the
\* bad panel's chart call and before the good panel, the five mistakes of the
\* mode, numbered 1 to 5 in their fixed order.
MarkdownLines == SelectSeq(out, LAMBDA e : e.kind = "markdown")

GoodTitles ==
    {"Fixed Bar Chart", "Fixed Pie Chart", "Fixed Line Chart", "Fixed Map Chart",
     "Fixed Donut Chart"}

IsBadPanel(e) == e.kind = "subheader" /\ e.text \notin GoodTitles
IsGoodPanel(e) == e.kind = "subheader" /\ e.text \in GoodTitles

C8_FiveMistakes ==
    (pc \in {"done", "crashed"} /\ Loaded) =>
        /\ MarkdownLines =
              [i \in 1..5 |-> [kind |-> "markdown", num |-> i,
                               text |-> Mistakes(chart_type)[i]]]
        /\ \A i \in 1..Len(out) :
              out[i].kind = "markdown" =>
                  /\ \E j \in 1..(i - 1) : IsBadPanel(out[j])
                  /\ \A j \in 1..(i - 1) : ~IsGoodPanel(out[j])

\* C9: in the good map panel with Latitude and Longitude present every row
\* gets one color of four integers: with a Category column the three bytes of
\* the first six hex digits of the hash of the category string, then 160;
\* without one the fixed color [180, 0, 200, 140].
MapColored == chart_type = "Map Chart" /\ pc = "done" /\ HasCoords(df.cols)

KeptLabels ==
    {Acquired.rows[i].idx : i \in
        {k \in 1..Len(Acquired.rows) :
            YearParses(Acquired.rows[k].Year) /\ Acquired.rows[k].Value.k # "nan"}}

C10_LineRowsExact ==
    /\ LineChartBuilt =>
          LET rows == goodData[1] IN
          /\ {rows[j].idx : j \in 1..Len(rows)} = KeptLabels
          /\ Len(rows) = Cardinality(KeptLabels)
          /\ \A j \in 1..Len(rows) :
                LET a == Acquired.rows[rows[j].idx + 1] IN
                rows[j].Value = a.Value /\ rows[j].Category = a.Category
    /\ (chart_type = "Line Chart" /\ pc \in {"good", "done"}) =>
          badData = <<[col |-> FirstNumeric(Acquired), idx |-> Labels(Acquired)]>>

C10_Witness ==
    /\ LineChartBuilt
    /\ Len(goodData[1]) >= 1
    /\ \E i \in 1..Len(Acquired.rows) :
          YearParses(Acquired.rows[i].Year) /\ Acquired.rows[i].Value.k = "nan"
    /\ Len(badData[1].idx) > Len(goodData[1])

====
